---- MODULE Spec2Model ----
(***************************************************************************)
(* A model of the sdlc-content template engine: TemplateRenderer (render,  *)
(* processLoops, processConditionals, processVariables, getNestedValue,    *)
(* isTruthy), TemplateInheritance (resolveTemplate, getInheritanceChain,   *)
(* mergeTemplates, clearCache) and the template store of ContentManager.   *)
(*                                                                         *)
(* Text.  A template text is a sequence of lexemes.  A lexeme is one of    *)
(* the units the scans of the source (its regular expressions and indexOf  *)
(* calls) recognise, or a run of plain characters:                         *)
(*   <<"txt", s>>          plain characters s (no braces)                  *)
(*   <<"var", p>>          {{p}}                 p a dotted path           *)
(*   <<"if", p>>           {{#if p}}                                       *)
(*   <<"endif">>           {{/if}}                                         *)
(*   <<"each", p, x>>      {{#each p as x}}                                *)
(*   <<"eachbad">>         {{#each}}  (a header that does not parse)       *)
(*   <<"endeach">>         {{/each}}                                       *)
(*   <<"splice">>          {{> parent}}                                    *)
(*   <<"open">>, <<"close">>   {{ and }} that belong to no marker            *)
(* The characters {{ w }} read as the marker {{w}} wherever they come to     *)
(* stand side by side: Lex rewrites <<"open">>, <<"txt", w>>, <<"close">>    *)
(* to <<"var", <<w>>>> when w is a word.                                     *)
(* A dotted path is the sequence of its segments (path.split('.')).        *)
(* Positions are 1-based; 0 stands for the -1 of indexOf.                  *)
(*                                                                         *)
(* Values.  A JavaScript value is a tagged tuple, the tag being the value  *)
(* class: <<"undefined">>, <<"null">>, <<"boolean", b>>, <<"number", n>>,  *)
(* <<"string", text>>, <<"array", <<v1, ..., vn>>>>, <<"object", props>>   *)
(* with props a sequence of <<name, value>> pairs in insertion order, and  *)
(* <<"function">> (an inherited method such as Object.prototype's          *)
(* constructor).  An environment is the props of an object.                *)
(***************************************************************************)
EXTENDS Integers, Sequences, FiniteSets, TLC

(***************************************************************************)
(* Values                                                                  *)
(***************************************************************************)
Undefined == <<"undefined">>
Null == <<"null">>
Bool(b) == <<"boolean", b>>
Num(n) == <<"number", n>>
Str(s) == <<"string", s>>
Arr(xs) == <<"array", xs>>
Obj(props) == <<"object", props>>
Fn == <<"function">>

Txt(s) == <<"txt", s>>
Var(p) == <<"var", p>>
If(p) == <<"if", p>>
EndIf == <<"endif">>
Each(p, x) == <<"each", p, x>>
EachBad == <<"eachbad">>
EndEach == <<"endeach">>
Splice == <<"splice">>
OpenBraces == <<"open">>
CloseBraces == <<"close">>

\* The plain texts of the model that are a run of word characters.
Words == {"a", "b"}

\* The lexemes a scan for variablePattern sees in the characters of text.
RECURSIVE Lex(_)
Lex(text) ==
  IF Len(text) < 3 THEN text
  ELSE IF text[1][1] = "open" /\ text[2][1] = "txt" /\ text[2][2] \in Words
          /\ text[3][1] = "close"
  THEN <<Var(<<text[2][2]>>)>> \o Lex(SubSeq(text, 4, Len(text)))
  ELSE <<text[1]>> \o Lex(Tail(text))

\* Names every object and array inherits (the `in` operator of getNestedValue
\* walks the prototype chain).
ProtoNames == {"constructor"}

Min(S) == CHOOSE i \in S : \A j \in S : i <= j

\* F applied to the value of v, with v evaluated once.
With(v, F(_)) == CHOOSE y \in {F(x) : x \in {v}} : TRUE

RECURSIVE Flatten(_)
Flatten(ss) == IF ss = <<>> THEN <<>> ELSE Head(ss) \o Flatten(Tail(ss))

\* Own properties of an object's props.
HasOwn(props, name) == \E i \in 1..Len(props) : props[i][1] = name
OwnValue(props, name) == props[Min({i \in 1..Len(props) : props[i][1] = name})][2]

\* The array index a property name denotes, 0-based, or -1.
ArrayIndex(xs, name) ==
  LET S == {i \in 0..(Len(xs) - 1) : ToString(i) = name}
  IN IF S = {} THEN -1 ELSE Min(S)

\* `part in current` for a value that passed `current && typeof current === 'object'`.
HasProp(v, part) ==
  CASE v[1] = "object" -> HasOwn(v[2], part) \/ part \in ProtoNames
    [] v[1] = "array" -> part = "length" \/ ArrayIndex(v[2], part) >= 0 \/ part \in ProtoNames
    [] OTHER -> FALSE

\* current[part]
GetProp(v, part) ==
  CASE v[1] = "object" /\ HasOwn(v[2], part) -> OwnValue(v[2], part)
    [] v[1] = "array" /\ part = "length" -> Num(Len(v[2]))
    [] v[1] = "array" /\ ArrayIndex(v[2], part) >= 0 -> v[2][ArrayIndex(v[2], part) + 1]
    [] OTHER -> Fn

RECURSIVE Walk(_, _)
Walk(current, parts) ==
  IF parts = <<>> THEN current
  ELSE IF HasProp(current, Head(parts)) THEN Walk(GetProp(current, Head(parts)), Tail(parts))
  ELSE Undefined

getNestedValue(obj, path) == Walk(Obj(obj), path)

\* isTruthy with a mapping judged like a list: truthy when it is not empty.
isTruthyNonEmpty(value) ==
  CASE value[1] \in {"null", "undefined"} -> FALSE
    [] value[1] = "boolean" -> value[2]
    [] value[1] = "number" -> value[2] # 0
    [] value[1] \in {"string", "array", "object"} -> Len(value[2]) > 0
    [] OTHER -> TRUE

isTruthy(value) ==
  CASE value[1] \in {"null", "undefined"} -> FALSE
    [] value[1] = "boolean" -> value[2]
    [] value[1] = "number" -> value[2] # 0
    [] value[1] = "string" -> Len(value[2]) > 0
    [] value[1] = "array" -> Len(value[2]) > 0
    [] OTHER -> TRUE

\* A test for "can be iterated" in place of Array.isArray: a string passes.
IsIterable(value) == value[1] \in {"array", "string"}

\* Array.isArray(value)
IsArray(value) == value[1] = "array"

\* String(value)
RECURSIVE ToText(_)
RECURSIVE JoinText(_)
JoinText(xs) ==
  IF xs = <<>> THEN <<>>
  ELSE (IF Head(xs)[1] \in {"null", "undefined"} THEN <<>> ELSE ToText(Head(xs)))
       \o (IF Len(xs) > 1 THEN <<Txt(",")>> ELSE <<>>) \o JoinText(Tail(xs))
ToText(value) ==
  CASE value[1] = "string" -> value[2]
    [] value[1] = "number" -> <<Txt(ToString(value[2]))>>
    [] value[1] = "boolean" -> <<Txt(IF value[2] THEN "true" ELSE "false")>>
    [] value[1] = "null" -> <<Txt("null")>>
    [] value[1] = "undefined" -> <<Txt("undefined")>>
    [] value[1] = "array" -> JoinText(value[2])
    [] value[1] = "object" -> <<Txt("[object Object]")>>
    [] OTHER -> <<Txt("function Object() { [native code] }")>>

(***************************************************************************)
(* TemplateRenderer                                                        *)
(***************************************************************************)
\* text.indexOf(marker, pos): the first position >= pos holding a lexeme of
\* one of the kinds, 0 when there is none.
IndexFrom(text, kinds, pos) ==
  LET S == {i \in pos..Len(text) : text[i][1] \in kinds}
  IN IF S = {} THEN 0 ELSE Min(S)

\* text.slice(from, to), both 1-based, `to` exclusive.
Slice(text, from, to) == SubSeq(text, from, to - 1)

\* Line 38: result.replace(variablePattern, '').
StripVariables(text) == Lex(SelectSeq(Lex(text), LAMBDA l : l[1] # "var"))

RECURSIVE ProcessVariablesFrom(_, _, _)
ProcessVariablesFrom(template, variables, pos) ==
  IF pos > Len(template) THEN <<>>
  ELSE (IF template[pos][1] = "var"
        THEN LET value == getNestedValue(variables, template[pos][2])
             IN IF value # Undefined THEN ToText(value) ELSE <<>>
        ELSE <<template[pos]>>)
       \o ProcessVariablesFrom(template, variables, pos + 1)

processVariables(template, variables) ==
  Lex(ProcessVariablesFrom(Lex(template), variables, 1))

\* The global, non-greedy conditionalRegex: a match starts at the leftmost
\* {{#if p}} and ends at the first {{/if}} after it; the scan resumes behind
\* the match.
RECURSIVE ProcessConditionalsFrom(_, _, _)
ProcessConditionalsFrom(template, variables, pos) ==
  LET open == IndexFrom(template, {"if"}, pos)
      close == IF open = 0 THEN 0 ELSE IndexFrom(template, {"endif"}, open + 1)
  IN IF open = 0 \/ close = 0 THEN Slice(template, pos, Len(template) + 1)
     ELSE Slice(template, pos, open)
          \o (IF isTruthy(getNestedValue(variables, template[open][2]))
              THEN Slice(template, open + 1, close)
              ELSE <<>>)
          \o ProcessConditionalsFrom(template, variables, close + 1)

processConditionals(template, variables) == ProcessConditionalsFrom(template, variables, 1)

\* The loop of findMatchingEnd: the position behind the {{/each}} that brings
\* depth to 0, or 0.
RECURSIVE FindMatchingEndFrom(_, _, _)
FindMatchingEndFrom(text, pos, depth) ==
  IF ~(depth > 0 /\ pos <= Len(text)) THEN 0
  ELSE LET nextStart == IndexFrom(text, {"each", "eachbad"}, pos)
           nextEnd == IndexFrom(text, {"endeach"}, pos)
       IN IF nextEnd = 0 THEN 0
          ELSE IF nextStart # 0 /\ nextStart < nextEnd
               THEN FindMatchingEndFrom(text, nextStart + 1, depth + 1)
          ELSE IF depth - 1 = 0 THEN nextEnd + 1
          ELSE FindMatchingEndFrom(text, nextEnd + 1, depth - 1)

\* The end taken without counting depth: behind the first {{/each}}.
findFirstEnd(text, startPos) ==
  IF IndexFrom(text, {"endeach"}, startPos) = 0 THEN 0
  ELSE IndexFrom(text, {"endeach"}, startPos) + 1

findMatchingEnd(text, startPos) == FindMatchingEndFrom(text, startPos, 1)

\* itemVars built without the loop variable.
ItemVarsUnbound(variables, itemName, item) == variables

\* { ...variables, [itemName]: item }: a new object, itemName rebound in place
\* when variables has it, appended otherwise.
ItemVars(variables, itemName, item) ==
  IF HasOwn(variables, itemName)
  THEN [i \in 1..Len(variables) |->
          IF variables[i][1] = itemName THEN <<itemName, item>> ELSE variables[i]]
  ELSE Append(variables, <<itemName, item>>)

\* The loop variable written into the caller's object (variables[itemName] = item).
VariablesWrittenBack(variables, itemName, item) == ItemVars(variables, itemName, item)

\* What building itemVars leaves in the object `variables` refers to: the
\* spread copies, so what it held.
VariablesAfterBind(variables, itemName, item) == variables

\* The outcome of a call: ok (it returned), the text returned, and the
\* environment object as the call left it.
Returned(out, vars) == [ok |-> TRUE, out |-> out, vars |-> vars]
NoReturn(vars) == [ok |-> FALSE, out |-> <<>>, vars |-> vars]

\* result += <what a call returned>: the text so far in front of a call's
\* outcome; a call that does not return leaves nothing to append to.
Append2(pre, r) == IF r.ok THEN Returned(pre \o r.out, r.vars) ELSE r
Prepend(pre, r) == With(r, LAMBDA x : Append2(pre, x))

RECURSIVE renderLoop(_, _, _, _)
RECURSIVE RenderItems(_, _, _, _, _)
RECURSIVE ProcessLoopsFrom(_, _, _, _)

\* result += this.render(content, itemVars) for one item (render strips what
\* still matches variablePattern before it returns), then the items left.
ItemThen(one, content, after, itemName, rest, fuel) ==
  IF ~one.ok THEN NoReturn(after)
  ELSE Prepend(StripVariables(one.out), RenderItems(content, after, itemName, rest, fuel))

\* for (const item of array) { itemVars = ...; result += this.render(content, itemVars) }
RenderItems(content, variables, itemName, items, fuel) ==
  IF items = <<>> THEN Returned(<<>>, variables)
  ELSE With(renderLoop(content, <<>>, ItemVars(variables, itemName, Head(items)), fuel),
            LAMBDA one : ItemThen(one, content,
                                  VariablesAfterBind(variables, itemName, Head(items)),
                                  itemName, Tail(items), fuel))

\* lastPos = endPos and the next round of the while (true), behind the
\* rendering of one block.
BlockThen(body, pre, template, endPos, fuel) ==
  IF ~body.ok THEN body
  ELSE Prepend(pre \o body.out, ProcessLoopsFrom(template, body.vars, endPos, fuel))

\* Lines 236-244: the rendering of the block whose header is at startMatch
\* and whose {{/each}} ends in front of endPos.
LoopBlock(template, variables, startMatch, endPos, fuel) ==
  LET content == Slice(template, startMatch + 1, endPos - 1)
      array == getNestedValue(variables, template[startMatch][2])
  IN IF IsArray(array)
     THEN RenderItems(content, variables, template[startMatch][3], array[2], fuel)
     ELSE Returned(<<>>, variables)

\* The while (true) of processLoops from lastPos on.
ProcessLoopsFrom(template, variables, lastPos, fuel) ==
  LET startMatch == IndexFrom(template, {"each", "eachbad"}, lastPos)
      endPos == findMatchingEnd(template, startMatch + 1)
  IN IF startMatch = 0 THEN Returned(Slice(template, lastPos, Len(template) + 1), variables)
     ELSE IF template[startMatch][1] = "eachbad" \/ endPos # 0
     THEN With(IF template[startMatch][1] = "eachbad"
               THEN Returned(<<template[startMatch]>>, variables)
               ELSE LoopBlock(template, variables, startMatch, endPos, fuel),
               LAMBDA body :
                 BlockThen(body, Slice(template, lastPos, startMatch), template,
                           IF template[startMatch][1] = "eachbad"
                           THEN startMatch + 1 ELSE endPos,
                           fuel))
     ELSE Returned(Slice(template, lastPos, Len(template) + 1), variables)

processLoops(template, variables, fuel) == ProcessLoopsFrom(template, variables, 1, fuel)

\* Lines 33-34 behind the outcome of line 32.
PassThen(loops) ==
  IF ~loops.ok THEN loops
  ELSE With(processConditionals(loops.out, loops.vars),
            LAMBDA conds : Returned(processVariables(conds, loops.vars), loops.vars))

\* One pass of the while loop of render (lines 32-34).
Pass(result, variables, fuel) == With(processLoops(result, variables, fuel), PassThen)

LoopThen(p, result, fuel) ==
  IF ~p.ok THEN p ELSE renderLoop(p.out, result, p.vars, fuel)

\* The while loop of a nested render call (lines 28-35): its result before the
\* cleanup of line 38.  fuel bounds the passes and the nesting still explored;
\* a call that needs more does not return.
renderLoop(result, previousResult, variables, fuel) ==
  IF result = previousResult THEN Returned(result, variables)
  ELSE IF fuel = 0 THEN NoReturn(variables)
  ELSE With(Pass(result, variables, fuel - 1), LAMBDA p : LoopThen(p, result, fuel - 1))

(***************************************************************************)
(* Inputs of render: the texts and environments a caller may pass.         *)
(***************************************************************************)
MaxLen == 3      \* longest text of the free families
MaxDepth == 2    \* deepest nesting of the block families
MaxItems == 2    \* longest list a loop runs over
MaxPasses == 6   \* passes and nesting explored inside a nested render call
MaxVars == 2     \* longest variables list of a template

SeqsUpTo(A, n) == UNION {[1..k -> A] : k \in 0..n}

\* An environment from <<name, value>> pairs; a pair whose value is Absent
\* stands for a name the environment does not have.
Absent == <<"absent">>
MkEnv(pairs) == SelectSeq(pairs, LAMBDA p : p[2] # Absent)

\* One or two values of every value class.
ClassValues ==
  { Undefined, Null, Bool(TRUE), Bool(FALSE), Num(0), Num(1),
    Str(<<>>), Str(<<Txt("s")>>), Arr(<<>>), Arr(<<Str(<<Txt("s")>>)>>),
    Obj(<<>>), Obj(<<<<"k", Str(<<Txt("s")>>)>>>>) }

NonLists == {v \in ClassValues : v[1] # "array"}
Lists == {Arr(xs) : xs \in SeqsUpTo({Str(<<Txt("s")>>), Num(1)}, MaxItems)}

\* Conditional blocks nested k deep, text on both sides of every block.
RECURSIVE NestIf(_)
NestIf(k) ==
  IF k = 0 THEN {<<Txt("X")>>}
  ELSE {<<Txt("L"), If(c)>> \o inner \o <<EndIf, Txt("R")>> :
          c \in {<<"a">>, <<"b">>}, inner \in NestIf(k - 1)}

CondInputs ==
  {[t |-> t, e |-> MkEnv(<<<<"a", a>>, <<"b", b>>>>)] :
     t \in UNION {NestIf(k) : k \in 1..MaxDepth},
     a \in ClassValues \cup {Absent},
     b \in {Bool(TRUE), Bool(FALSE)}}

\* Loop blocks nested k deep; the innermost body refers to the loop
\* variable x and to an outer name a.
RECURSIVE NestEach(_)
NestEach(k) ==
  IF k = 0 THEN {<<Txt("-"), Var(<<"x">>), Var(<<"a">>)>>}
  ELSE {<<Txt("L"), Each(p, IF k = 1 THEN "x" ELSE "y")>> \o inner \o <<EndEach, Txt("R")>> :
          p \in {<<"xs">>}, inner \in NestEach(k - 1)}

LoopInputs ==
  {[t |-> t, e |-> MkEnv(<<<<"a", Str(<<Txt("A")>>)>>, <<"x", x>>, <<"xs", xs>>>>)] :
     t \in UNION {NestEach(k) : k \in 1..MaxDepth},
     x \in {Absent, Str(<<Txt("o")>>)},
     xs \in NonLists \cup Lists \cup {Absent}}

\* Values that hold marker text themselves.
MarkerInputs ==
  {[t |-> t, e |-> MkEnv(<<<<"a", a>>, <<"b", b>>, <<"c", c>>>>)] :
     t \in SeqsUpTo({Txt("X"), Var(<<"a">>), If(<<"c">>), EndIf}, MaxLen),
     a \in {Absent, Str(<<Txt("s")>>), Str(<<Var(<<"b">>)>>),
            Str(<<If(<<"c">>), Var(<<"a">>), EndIf>>)},
     b \in {Absent, Str(<<Var(<<"a">>)>>)},
     c \in {Bool(TRUE), Bool(FALSE)}}

\* Every text over the block markers, well formed or not.
FreeInputs ==
  {[t |-> t, e |-> MkEnv(<<<<"a", Str(<<Txt("A")>>)>>, <<"xs", xs>>>>)] :
     t \in SeqsUpTo({Txt("X"), Var(<<"x">>), Each(<<"xs">>, "x"), EachBad, EndEach,
                     If(<<"a">>), EndIf}, MaxLen),
     xs \in {Arr(<<Num(1), Str(<<Txt("s")>>)>>), Null}}

\* One plain reference between two texts, its path of one to three
\* segments, against values of every class, a nested mapping and a string
\* that holds a reference itself.
PathTexts ==
  {<<Txt("L"), Var(p), Txt("R")>> :
     p \in {<<"a">>, <<"m">>, <<"a", "k">>, <<"a", "k", "j">>, <<"a", "m">>,
            <<"a", "length">>, <<"a", "0">>, <<"constructor">>}}

PathInputs ==
  {[t |-> t, e |-> MkEnv(<<<<"a", a>>>>)] :
     t \in PathTexts,
     a \in ClassValues
           \cup {Absent, Obj(<<<<"k", Obj(<<<<"j", Num(1)>>>>)>>>>), Str(<<Var(<<"b">>)>>)}}

\* Every text over the openings and closings of both blocks, the
\* condition truthy or falsy, the loop source a list or not.
OpenTexts == SeqsUpTo({Txt("X"), If(<<"a">>), EndIf, Each(<<"xs">>, "x"), EndEach}, MaxLen)

OpenInputs ==
  {[t |-> t, e |-> MkEnv(<<<<"a", a>>, <<"xs", xs>>>>)] :
     t \in OpenTexts,
     a \in {Bool(TRUE), Bool(FALSE)},
     xs \in {Arr(<<Num(1)>>), Null}}

\* Texts with braces around references and words, against a value that is
\* plain, missing, or the text of a reference.
SplitInputs ==
  {[t |-> Lex(<<OpenBraces>> \o mid \o <<CloseBraces>>), e |-> MkEnv(<<<<"a", a>>>>)] :
     mid \in SeqsUpTo({Var(<<"a">>), Txt("a"), Txt("X")}, MaxLen - 1),
     a \in {Absent, Str(<<Txt("s")>>), Str(<<Var(<<"a">>)>>)}}

\* Texts whose only marker is the reference {{a}}; a is bound to a plain
\* string or to the text of a reference to b, b to nothing or to a string.
SoleReferenceInputs ==
  {[t |-> t, e |-> MkEnv(<<<<"a", a>>, <<"b", b>>>>)] :
     t \in {<<Var(<<"a">>)>>, <<Txt("L"), Var(<<"a">>), Txt("R")>>},
     a \in {Str(<<Txt("s")>>), Str(<<Var(<<"b">>)>>), Str(<<Txt("x"), Var(<<"b">>)>>)},
     b \in {Absent, Str(<<Txt("1")>>), Str(<<Txt("2")>>)}}

RenderInputs ==
  CondInputs \cup LoopInputs \cup MarkerInputs \cup FreeInputs \cup PathInputs \cup OpenInputs
  \cup SplitInputs \cup SoleReferenceInputs

(***************************************************************************)
(* render(template, variables) as the caller sees it: one step per pass    *)
(* of the while loop, one for the cleanup and return.                      *)
(***************************************************************************)
VARIABLES
  template,        \* the text passed to render
  variables,       \* the environment object passed to render
  given,           \* the contents of that object when the call was made
  result,          \* render's local result
  previousResult,  \* render's local previousResult
  rpc,             \* "idle": no call yet; "loop": in the while loop; "done": returned; "hung": a nested call does not return
  rerun            \* whether template is the output of the call before

rvars == <<template, variables, given, result, previousResult, rpc, rerun>>

VARIABLES
  templates,       \* ContentManager.templates: id -> template, NoTemplate when absent
  resolvedCache,   \* TemplateInheritance.resolvedCache: id -> template, NoTemplate when absent
  templateGetter,  \* whether setTemplateGetter has been called
  calls,           \* per caller: the call it has in flight
  replaced,        \* the ids whose template the change handler has replaced
  afterClear       \* the ids not resolved since the cache was last cleared, as
                   \* far as recorded

ivars == <<templates, resolvedCache, templateGetter, calls, replaced, afterClear>>

VARIABLES
  mparent,         \* mergeTemplates' parent argument
  mchild,          \* mergeTemplates' child argument
  mresult,          \* what mergeTemplates returned
  mpc              \* "idle": no call; "done": mergeTemplates has returned

mvars == <<mparent, mchild, mresult, mpc>>

VARIABLES
  called,          \* the synchronous operation a caller has called, "none" when idle
  argument,        \* what it was called with
  outcome          \* what it returned

pvars == <<called, argument, outcome>>

\* What the steps of one component leave alone: the state of the others.
besidesRender == <<ivars, mvars, pvars>>
besidesInherit == <<rvars, mvars, pvars>>
besidesMerge == <<rvars, ivars, pvars>>
besidesCall == <<rvars, ivars, mvars>>

RenderInit ==
  /\ template = <<>>
  /\ variables = <<>>
  /\ given = <<>>
  /\ result = <<>>
  /\ previousResult = <<>>
  /\ rpc = "idle"
  /\ rerun = FALSE

\* Lines 20-25: a caller calls render(in.t, in.e).
RenderCall(in) ==
  /\ rpc = "idle"
  /\ template' = in.t
  /\ variables' = in.e
  /\ given' = in.e
  /\ result' = in.t
  /\ previousResult' = <<>>
  /\ rpc' = "loop"
  /\ rerun' = FALSE
  /\ UNCHANGED besidesRender

\* What a pass with outcome p leaves in render's locals.
PassDone(p) ==
  /\ previousResult' = result
  /\ result' = IF p.ok THEN p.out ELSE result
  /\ variables' = p.vars
  /\ rpc' = IF p.ok THEN "loop" ELSE "hung"

\* Lines 28-35: one iteration of the while loop.
RenderPass ==
  /\ rpc = "loop"
  /\ result # previousResult
  /\ \E p \in {Pass(result, variables, MaxPasses)} : PassDone(p)
  /\ UNCHANGED <<template, given, rerun>>
  /\ UNCHANGED besidesRender

\* Lines 37-41: the loop has ended; strip what still matches variablePattern
\* and return.
RenderFinish ==
  /\ rpc = "loop"
  /\ result = previousResult
  /\ result' = StripVariables(result)
  /\ rpc' = "done"
  /\ UNCHANGED <<template, variables, given, previousResult, rerun>>
  /\ UNCHANGED besidesRender

\* The caller renders the returned text again with the same environment.
RenderAgain ==
  /\ rpc = "done"
  /\ ~rerun
  /\ template' = result
  /\ previousResult' = <<>>
  /\ rpc' = "loop"
  /\ rerun' = TRUE
  /\ UNCHANGED <<variables, given, result>>
  /\ UNCHANGED besidesRender

RenderNext ==
  \/ \E in \in RenderInputs : RenderCall(in)
  \/ RenderPass
  \/ RenderFinish
  \/ RenderAgain

\* render as a function: the text a call returns, when it returns.
Cleanup(r) == IF r.ok THEN Returned(StripVariables(r.out), r.vars) ELSE r
render(text, env) == With(renderLoop(text, <<>>, env, MaxPasses), Cleanup)

(***************************************************************************)
(* TemplateInheritance and the template store of ContentManager            *)
(***************************************************************************)
\* An ISDLCTemplate.  parent = "" and phase = "" stand for the optional field
\* left out; id = "" marks "no template" (undefined, null, a cache miss).
Template(id, parent, content) ==
  [id |-> id, name |-> id, phase |-> "", parent |-> parent, content |-> content,
   variables |-> <<>>, tags |-> <<>>]
\* An IVariableValidation.  A rule left out is Absent; a pattern is given by
\* the texts its regular expression accepts, an enum by its list of values,
\* min and max are number values.
Pattern(texts) == <<"pattern", texts>>
Enum(values) == <<"enum", values>>
Validation(pattern, min, max, enum) ==
  [pattern |-> pattern, min |-> min, max |-> max, enum |-> enum]
\* The rules of a variable: those of its validation, none without one.
RulesOf(varDef) ==
  IF varDef.validation[1] = "absent" THEN Validation(Absent, Absent, Absent, Absent)
  ELSE varDef.validation[2]
\* An ITemplateVariable; name is a dotted path.  validation = Absent: none.
VarSpecWith(name, description, type, required, validation) ==
  [name |-> name, description |-> description, type |-> type, required |-> required,
   validation |-> <<"validation", validation>>]
VarSpec(name, description, type, required) ==
  [name |-> name, description |-> description, type |-> type, required |-> required,
   validation |-> Absent]

(***************************************************************************)
(* TemplateRenderer.validateVariables                                      *)
(***************************************************************************)
\* The strings Date.parse reads as a date.
DateTexts == {<<Txt("2020-01-01")>>}

validateType(value, type) ==
  CASE type = "string" -> value[1] = "string"
    [] type = "number" -> value[1] = "number"
    [] type = "boolean" -> value[1] = "boolean"
    [] type = "date" -> value[1] = "string" /\ value[2] \in DateTexts
    [] type = "array" -> value[1] = "array"
    [] type = "object" -> value[1] = "object"
    [] OTHER -> TRUE

\* An IValidationError or IValidationWarning; rule stands for the message.
Issue(path, type, rule) == [path |-> path, type |-> type, rule |-> rule]

\* validation.enum.includes(value): a primitive equal to an element.
Includes(enum, value) ==
  /\ value[1] \in {"undefined", "null", "boolean", "number", "string"}
  /\ \E i \in 1..Len(enum[2]) : enum[2][i] = value

validateValue(value, varDef) ==
  IF varDef.validation = Absent THEN <<>>
  ELSE (IF RulesOf(varDef).pattern # Absent /\ value[1] = "string"
           /\ value[2] \notin RulesOf(varDef).pattern[2]
        THEN <<Issue(varDef.name, "invalid", "pattern")>> ELSE <<>>)
    \o (IF value[1] = "number" /\ RulesOf(varDef).min # Absent
           /\ value[2] < RulesOf(varDef).min[2]
        THEN <<Issue(varDef.name, "invalid", "min")>> ELSE <<>>)
    \o (IF value[1] = "number" /\ RulesOf(varDef).max # Absent
           /\ value[2] > RulesOf(varDef).max[2]
        THEN <<Issue(varDef.name, "invalid", "max")>> ELSE <<>>)
    \o (IF RulesOf(varDef).enum # Absent /\ ~Includes(RulesOf(varDef).enum, value)
        THEN <<Issue(varDef.name, "invalid", "enum")>> ELSE <<>>)

\* Lines 58-85: the errors one declared variable adds.
ErrorsOf(varDef, value) ==
  IF varDef.required /\ value[1] = "undefined"
  THEN <<Issue(varDef.name, "missing", "required")>>
  ELSE IF value[1] = "undefined" THEN <<>>
  ELSE (IF ~validateType(value, varDef.type)
        THEN <<Issue(varDef.name, "invalid", "type")>> ELSE <<>>)
       \o validateValue(value, varDef)

\* Object.entries(obj) walked depth first, the keys joined with dots.
RECURSIVE flattenKeys(_, _)
flattenKeys(obj, prefix) ==
  Flatten([i \in 1..Len(obj) |->
             <<Append(prefix, obj[i][1])>>
             \o (IF obj[i][2][1] = "object"
                 THEN flattenKeys(obj[i][2][2], Append(prefix, obj[i][1]))
                 ELSE <<>>)])

\* Lines 88-99: a warning for every provided key no variable declares.
UnusedOf(declared, keys) ==
  Flatten([i \in 1..Len(keys) |->
             IF \E j \in 1..Len(declared) : declared[j].name = keys[i] THEN <<>>
             ELSE <<Issue(keys[i], "unused", "unused")>>])

Validated(errors, warnings) ==
  [valid |-> Len(errors) = 0, errors |-> errors, warnings |-> warnings]

\* validateVariables that returns at the first variable with an error.
RECURSIVE FirstErrorsFrom(_, _, _)
FirstErrorsFrom(tmpl, provided, i) ==
  IF i > Len(tmpl.variables) THEN <<>>
  ELSE IF ErrorsOf(tmpl.variables[i], getNestedValue(provided, tmpl.variables[i].name)) # <<>>
  THEN ErrorsOf(tmpl.variables[i], getNestedValue(provided, tmpl.variables[i].name))
  ELSE FirstErrorsFrom(tmpl, provided, i + 1)
validateVariablesShortCircuit(tmpl, provided) ==
  Validated(FirstErrorsFrom(tmpl, provided, 1),
            UnusedOf(tmpl.variables, flattenKeys(provided, <<>>)))

validateVariables(tmpl, provided) ==
  Validated(Flatten([i \in 1..Len(tmpl.variables) |->
                       ErrorsOf(tmpl.variables[i],
                                getNestedValue(provided, tmpl.variables[i].name))]),
            UnusedOf(tmpl.variables, flattenKeys(provided, <<>>)))
NoTemplate == Template("", "", <<>>)
Present(t) == t.id # ""

\* A text of two characters "$" c, which String.prototype.replace reads as a
\* replacement pattern when it stands in the replacement string.
Dollar(c) == <<"dollar", c>>

\* What one lexeme of the replacement string inserts for a match: "$$"
\* inserts "$", "$&" the matched text, "$`" the text before the match and
\* "$'" the text after it.
Inserted(l, matched, before, after) ==
  IF l[1] # "dollar" THEN <<l>>
  ELSE IF l[2] = "$" THEN <<Txt("$")>>
  ELSE IF l[2] = "&" THEN <<matched>>
  ELSE IF l[2] = "`" THEN before
  ELSE IF l[2] = "'" THEN after
  ELSE <<l>>

\* childContent.replace(/\{\{>\s*parent\s*\}\}/g, parentContent)
mergeContent(parentContent, childContent) ==
  Flatten([i \in 1..Len(childContent) |->
             IF childContent[i][1] = "splice"
             THEN Flatten([j \in 1..Len(parentContent) |->
                             Inserted(parentContent[j], childContent[i],
                                      SubSeq(childContent, 1, i - 1),
                                      SubSeq(childContent, i + 1, Len(childContent)))])
             ELSE <<childContent[i]>>])

\* mresult.findIndex(v => v.name === name), 1-based, 0 for -1.
FindIndex(merged, name) ==
  LET S == {i \in 1..Len(merged) : merged[i].name = name}
  IN IF S = {} THEN 0 ELSE Min(S)

RECURSIVE MergeVariablesFrom(_, _)
MergeVariablesFrom(merged, childVars) ==
  IF childVars = <<>> THEN merged
  ELSE MergeVariablesFrom(
         IF FindIndex(merged, Head(childVars).name) > 0
         THEN [merged EXCEPT ![FindIndex(merged, Head(childVars).name)] = Head(childVars)]
         ELSE Append(merged, Head(childVars)),
         Tail(childVars))

mergeVariables(parentVars, childVars) == MergeVariablesFrom(parentVars, childVars)

\* Array.from(new Set(tags)): the first occurrence of every tag, in order.
RECURSIVE Distinct(_)
Distinct(tags) ==
  IF tags = <<>> THEN <<>>
  ELSE <<Head(tags)>> \o Distinct(SelectSeq(Tail(tags), LAMBDA t : t # Head(tags)))

mergeTags(parentTags, childTags) == Distinct(parentTags \o childTags)

mergeTemplates(parent, child) ==
  [id |-> child.id,
   name |-> child.name,
   phase |-> IF child.phase # "" THEN child.phase ELSE parent.phase,
   parent |-> child.parent,
   content |-> mergeContent(parent.content, child.content),
   variables |-> mergeVariables(parent.variables, child.variables),
   tags |-> mergeTags(parent.tags, child.tags)]

Ids == {"A", "B", "C"}

\* The templates the loader may deliver: roots, children, a template that is
\* its own parent, a cycle through the start (A, B) and one beside it (B, C).
TemplatePool ==
  { Template("A", "B", <<Splice, Txt("a")>>),
    Template("A", "A", <<Txt("a")>>),
    Template("B", "", <<Txt("b")>>),
    Template("B", "", <<Txt("b2")>>),
    Template("B", "C", <<Splice, Txt("b")>>),
    Template("B", "A", <<Txt("b")>>),
    Template("C", "", <<Txt("c")>>),
    Template("C", "B", <<Txt("c")>>) }

Callers == {"c1"}

Reverse(seq) == [i \in 1..Len(seq) |-> seq[Len(seq) + 1 - i]]

\* A caller with no call in flight.
Idle ==
  [op |-> "none", pc |-> "idle", templateId |-> "", template |-> NoTemplate,
   chain |-> <<>>, visited |-> {}, currentId |-> "", rest |-> <<>>,
   resolved |-> NoTemplate, ret |-> NoTemplate, retChain |-> <<>>, error |-> "",
   env |-> <<>>, out |-> <<>>, lookups |-> <<>>, dirty |-> FALSE, cleared |-> FALSE]

InheritInit ==
  /\ templates = [id \in Ids |-> NoTemplate]
  /\ resolvedCache = [id \in Ids |-> NoTemplate]
  /\ templateGetter = FALSE
  /\ calls = [c \in Callers |-> Idle]
  /\ replaced = {}
  /\ afterClear = {}

\* ContentManager's constructor: inheritance.setTemplateGetter(id => templates.get(id)).
SetTemplateGetter ==
  /\ ~templateGetter
  /\ templateGetter' = TRUE
  /\ UNCHANGED <<templates, resolvedCache, calls, replaced, afterClear>>
  /\ UNCHANGED besidesInherit

\* this.templates.set(template.id, template): initialize (line 50) and the
\* watchForChanges callback (line 69).  Nothing else is touched.
StoreSet(t) ==
  /\ templates[t.id] # t
  /\ templates' = [templates EXCEPT ![t.id] = t]
  /\ replaced' = IF Present(templates[t.id]) THEN replaced \cup {t.id} ELSE replaced
  /\ calls' = [c \in Callers |->
                 IF calls[c].pc = "idle" THEN calls[c] ELSE [calls[c] EXCEPT !.dirty = TRUE]]
  /\ UNCHANGED <<resolvedCache, templateGetter, afterClear>>
  /\ UNCHANGED besidesInherit

\* A call suspended at an await of resolveTemplate with a template in hand
\* that goes into the cache entry it will write: the parentless template of
\* line 42, or the templates of the fold (line 61).
HoldsForEntry(call) ==
  \/ call.pc = "fold"
  \/ call.pc = "got" /\ Present(call.template) /\ call.template.parent = ""

\* clearCache().  The calls in flight are not told.
clearCache ==
  /\ resolvedCache' = [id \in Ids |-> NoTemplate]
  /\ UNCHANGED <<templates, templateGetter, calls, replaced, afterClear>>
  /\ UNCHANGED besidesInherit

\* clearCache() with its history recorded: `cleared` says that the cache was
\* cleared while the call held a template, afterClear which ids have not
\* been resolved since.
clearCacheRecorded ==
  /\ resolvedCache' = [id \in Ids |-> NoTemplate]
  /\ calls' = [c \in Callers |->
                 IF HoldsForEntry(calls[c]) THEN [calls[c] EXCEPT !.cleared = TRUE]
                 ELSE calls[c]]
  /\ afterClear' = Ids
  /\ UNCHANGED <<templates, templateGetter, replaced>>
  /\ UNCHANGED besidesInherit

\* The call record after this.templateGetter(id): the store is read when the
\* getter is called, the value arrives behind the await.
Lookup(call, id) ==
  [call EXCEPT !.template = templates[id], !.lookups = Append(@, id)]

Throw(call, error) == [call EXCEPT !.pc = "failed", !.error = error]

\* resolveTemplate lines 30-42: from the call to the first await.
ResolveEnter(call, id) ==
  IF Present(resolvedCache[id])
  THEN [call EXCEPT !.pc = "done", !.ret = resolvedCache[id]]
  ELSE IF ~templateGetter THEN Throw(call, "getter not set")
  ELSE [Lookup(call, id) EXCEPT !.pc = "got"]

resolveTemplate(c, id) ==
  /\ calls[c].pc = "idle"
  /\ calls' = [calls EXCEPT ![c] =
                 ResolveEnter([Idle EXCEPT !.op = "resolveTemplate", !.templateId = id], id)]
  /\ afterClear' = afterClear \ {id}
  /\ UNCHANGED <<templates, resolvedCache, templateGetter, replaced>>
  /\ UNCHANGED besidesInherit

\* getTemplate hands a stored template with a parent to resolveTemplate.
AfterGetTemplate(id) ==
  IF Present(templates[id]) /\ templates[id].parent # "" THEN afterClear \ {id}
  ELSE afterClear

\* ContentManager.getTemplate lines 91-102.
GetTemplateEnter(call, id) ==
  IF ~Present(templates[id]) THEN [call EXCEPT !.pc = "done"]
  ELSE IF templates[id].parent # "" THEN ResolveEnter(call, id)
  ELSE [call EXCEPT !.pc = "done", !.ret = templates[id]]

getTemplate(c, id) ==
  /\ calls[c].pc = "idle"
  /\ calls' = [calls EXCEPT ![c] =
                 GetTemplateEnter([Idle EXCEPT !.op = "getTemplate", !.templateId = id], id)]
  /\ afterClear' = AfterGetTemplate(id)
  /\ UNCHANGED <<templates, resolvedCache, templateGetter, replaced>>
  /\ UNCHANGED besidesInherit

\* getInheritanceChain lines 120-125: from the call to the first await.
ChainEnter(call, id) ==
  IF ~templateGetter THEN Throw(call, "not a function")
  ELSE [Lookup(call, id) EXCEPT !.pc = "chain", !.chain = <<id>>, !.visited = {id},
                                !.currentId = id]

getInheritanceChain(c, id) ==
  /\ calls[c].pc = "idle"
  /\ calls' = [calls EXCEPT ![c] =
                 ChainEnter([Idle EXCEPT !.op = "getInheritanceChain", !.templateId = id], id)]
  /\ UNCHANGED <<templates, resolvedCache, templateGetter, replaced, afterClear>>
  /\ UNCHANGED besidesInherit

\* resolveTemplate lines 43-54, behind the await of line 42.
GotThen(call) ==
  IF ~Present(call.template) THEN Throw(call, "not found")
  ELSE IF call.template.parent = ""
  THEN [call EXCEPT !.pc = "done", !.ret = call.template]
  ELSE ChainEnter(call, call.templateId)

\* ResolveGot with the template cached as soon as it is read, parent or not.
ResolveGotCachingFirst(c) ==
  /\ calls[c].pc = "got"
  /\ calls' = [calls EXCEPT ![c] = GotThen(calls[c])]
  /\ resolvedCache' =
       IF Present(calls[c].template)
       THEN [resolvedCache EXCEPT ![calls[c].templateId] = calls[c].template]
       ELSE resolvedCache
  /\ UNCHANGED <<templates, templateGetter, replaced, afterClear>>
  /\ UNCHANGED besidesInherit

ResolveGot(c) ==
  /\ calls[c].pc = "got"
  /\ calls' = [calls EXCEPT ![c] = GotThen(calls[c])]
  /\ resolvedCache' =
       IF Present(calls[c].template) /\ calls[c].template.parent = ""
       THEN [resolvedCache EXCEPT ![calls[c].templateId] = calls[c].template]
       ELSE resolvedCache
  /\ UNCHANGED <<templates, templateGetter, replaced, afterClear>>
  /\ UNCHANGED besidesInherit

\* ChainThen with the id just looked up pushed in place of its parent.
ChainThenPushCurrent(call) ==
  IF ~Present(call.template) \/ call.template.parent = ""
  THEN IF call.op = "getInheritanceChain"
       THEN [call EXCEPT !.pc = "done", !.retChain = call.chain]
       ELSE [call EXCEPT !.pc = "chained"]
  ELSE IF call.template.parent \in call.visited
  THEN Throw(call, "circular")
  ELSE [Lookup(call, call.template.parent) EXCEPT
          !.chain = Append(call.chain, call.currentId),
          !.visited = call.visited \cup {call.template.parent},
          !.currentId = call.template.parent]

\* getInheritanceChain lines 126-145, behind the await of line 125: one round
\* of the while (true), or the return.
ChainThen(call) ==
  IF ~Present(call.template) \/ call.template.parent = ""
  THEN IF call.op = "getInheritanceChain"
       THEN [call EXCEPT !.pc = "done", !.retChain = call.chain]
       ELSE [call EXCEPT !.pc = "chained"]
  ELSE IF call.template.parent \in call.visited
  THEN Throw(call, "circular")
  ELSE [Lookup(call, call.template.parent) EXCEPT
          !.chain = Append(call.chain, call.template.parent),
          !.visited = call.visited \cup {call.template.parent},
          !.currentId = call.template.parent]

ChainStep(c) ==
  /\ calls[c].pc = "chain"
  /\ calls' = [calls EXCEPT ![c] = ChainThen(calls[c])]
  /\ UNCHANGED <<templates, resolvedCache, templateGetter, replaced, afterClear>>
  /\ UNCHANGED besidesInherit

\* resolveTemplate lines 55-61, behind the await of line 54: the first round
\* of the for loop up to its await.
ChainedThen(call) ==
  [Lookup(call, call.chain[Len(call.chain)]) EXCEPT
     !.pc = "fold", !.rest = Reverse(call.chain)]

ResolveChained(c) ==
  /\ calls[c].pc = "chained"
  /\ calls' = [calls EXCEPT ![c] = ChainedThen(calls[c])]
  /\ UNCHANGED <<templates, resolvedCache, templateGetter, replaced, afterClear>>
  /\ UNCHANGED besidesInherit

\* Lines 66-70: resolved after the round that got `current`.
Folded(resolved, current) ==
  IF ~Present(resolved) THEN current ELSE mergeTemplates(resolved, current)

\* resolveTemplate lines 62-81, behind the await of line 61: the rest of a
\* round of the for loop, then the next round up to its await, or the end.
FoldThen(call) ==
  IF ~Present(call.template) THEN Throw(call, "chain not found")
  ELSE IF Len(call.rest) > 1
  THEN [Lookup(call, call.rest[2]) EXCEPT
          !.resolved = Folded(call.resolved, call.template), !.rest = Tail(call.rest)]
  ELSE [call EXCEPT !.pc = "done", !.rest = <<>>,
                    !.resolved = Folded(call.resolved, call.template),
                    !.ret = Folded(call.resolved, call.template)]

FoldStep(c) ==
  /\ calls[c].pc = "fold"
  /\ calls' = [calls EXCEPT ![c] = FoldThen(calls[c])]
  /\ resolvedCache' =
       IF Present(calls[c].template) /\ Len(calls[c].rest) = 1
       THEN [resolvedCache EXCEPT ![calls[c].templateId] =
               Folded(calls[c].resolved, calls[c].template)]
       ELSE resolvedCache
  /\ UNCHANGED <<templates, templateGetter, replaced, afterClear>>
  /\ UNCHANGED besidesInherit

\* ContentManager.renderTemplate lines 141-153: up to the await of
\* getTemplate.  pc = "done" then says that getTemplate has returned.
renderTemplate(c, id, env) ==
  /\ calls[c].pc = "idle"
  /\ templateGetter
  /\ calls' = [calls EXCEPT ![c] =
                 GetTemplateEnter([Idle EXCEPT !.op = "renderTemplate", !.templateId = id,
                                               !.env = env], id)]
  /\ afterClear' = AfterGetTemplate(id)
  /\ UNCHANGED <<templates, resolvedCache, templateGetter, replaced>>
  /\ UNCHANGED besidesInherit

\* Lines 171-175: the call after this.renderer.render.
RenderedThen(call, r) ==
  IF r.ok THEN [call EXCEPT !.pc = "rendered", !.out = r.out]
  ELSE [call EXCEPT !.pc = "hung"]

\* Lines 154-175, behind the await of getTemplate.
RenderTemplateThen(call) ==
  IF ~Present(call.ret) THEN Throw(call, "not found")
  ELSE IF ~validateVariables(call.ret, call.env).valid
  THEN Throw(call, "invalid variables")
  ELSE RenderedThen(call, render(call.ret.content, call.env))

RenderTemplateStep(c) ==
  /\ calls[c].op = "renderTemplate"
  /\ calls[c].pc = "done"
  /\ calls' = [calls EXCEPT ![c] = RenderTemplateThen(calls[c])]
  /\ UNCHANGED <<templates, resolvedCache, templateGetter, replaced, afterClear>>
  /\ UNCHANGED besidesInherit

\* The caller has its result, or its error, and may call again.
Return(c) ==
  /\ \/ calls[c].pc \in {"failed", "rendered"}
     \/ calls[c].pc = "done" /\ calls[c].op # "renderTemplate"
  /\ calls' = [calls EXCEPT ![c] = Idle]
  /\ UNCHANGED <<templates, resolvedCache, templateGetter, replaced, afterClear>>
  /\ UNCHANGED besidesInherit

InheritNext ==
  \/ SetTemplateGetter
  \/ \E t \in TemplatePool : StoreSet(t)
  \/ clearCache
  \/ \E c \in Callers, id \in Ids : resolveTemplate(c, id)
  \/ \E c \in Callers, id \in Ids : getTemplate(c, id)
  \/ \E c \in Callers, id \in Ids : getInheritanceChain(c, id)
  \/ \E c \in Callers : ResolveGot(c)
  \/ \E c \in Callers : ChainStep(c)
  \/ \E c \in Callers : ResolveChained(c)
  \/ \E c \in Callers : FoldStep(c)
  \/ \E c \in Callers : Return(c)

\* The templates of the calls that meet clearCache: a child, its root in two
\* versions, another root.
CachePool ==
  { Template("A", "B", <<Splice, Txt("a")>>),
    Template("B", "", <<Txt("b")>>),
    Template("B", "", <<Txt("b2")>>),
    Template("C", "", <<Txt("c")>>) }

CacheNext ==
  \/ SetTemplateGetter
  \/ \E t \in CachePool : StoreSet(t)
  \/ clearCacheRecorded
  \/ \E c \in Callers, id \in Ids : resolveTemplate(c, id)
  \/ \E c \in Callers : ResolveGot(c)
  \/ \E c \in Callers : ChainStep(c)
  \/ \E c \in Callers : ResolveChained(c)
  \/ \E c \in Callers : FoldStep(c)
  \/ \E c \in Callers : Return(c)

\* The templates and environments of the renderTemplate calls: a child of
\* B that declares x, roots B that declare nothing or a required n, and a
\* root C that declares a required number.
ContentPool ==
  { [Template("A", "B", <<Splice, Txt("-"), Var(<<"x">>)>>) EXCEPT
       !.variables = <<VarSpec(<<"x">>, "c", "string", FALSE)>>],
    Template("B", "", <<Txt("b")>>),
    [Template("B", "", <<Txt("b"), Var(<<"n">>)>>) EXCEPT
       !.variables = <<VarSpec(<<"n">>, "p", "string", TRUE)>>],
    [Template("C", "", <<Var(<<"n">>)>>) EXCEPT
       !.variables = <<VarSpec(<<"n">>, "p", "number", TRUE)>>] }

ContentEnvs ==
  { MkEnv(<<<<"n", n>>, <<"x", x>>>>) :
      n \in {Absent, Str(<<Txt("s")>>), Num(1)}, x \in {Absent, Str(<<Txt("t")>>), Num(2)} }

ContentNext ==
  \/ SetTemplateGetter
  \/ \E t \in ContentPool : StoreSet(t)
  \/ \E c \in Callers, id \in Ids, env \in ContentEnvs : renderTemplate(c, id, env)
  \/ \E c \in Callers : ResolveGot(c)
  \/ \E c \in Callers : ChainStep(c)
  \/ \E c \in Callers : ResolveChained(c)
  \/ \E c \in Callers : FoldStep(c)
  \/ \E c \in Callers : RenderTemplateStep(c)
  \/ \E c \in Callers : Return(c)

(***************************************************************************)
(* TemplateRenderer.extractVariables                                       *)
(***************************************************************************)
\* The paths a global scan for open ... first close captures from position
\* from on: exec resumes behind each match, so an opening inside a match is
\* never a match of its own.
RECURSIVE BlockMatchesFrom(_, _, _, _)
BlockMatchesFrom(text, from, open, close) ==
  LET S == {i \in from..Len(text) :
              text[i][1] = open /\ IndexFrom(text, {close}, i + 1) # 0}
  IN IF S = {} THEN <<>>
     ELSE <<text[Min(S)][2]>>
          \o BlockMatchesFrom(text, IndexFrom(text, {close}, Min(S) + 1) + 1, open, close)

\* The paths of the {{path}} markers, in the order of the scan.
ReferenceMatches(text) ==
  Flatten([i \in 1..Len(text) |-> IF text[i][1] = "var" THEN <<text[i][2]>> ELSE <<>>])

\* A Set filled in the order of the sequence: the first occurrence of each.
AddAll(names) ==
  Flatten([i \in 1..Len(names) |->
             IF \E j \in 1..(i - 1) : names[j] = names[i] THEN <<>> ELSE <<names[i]>>])

extractVariables(text) ==
  LET matches == AddAll(ReferenceMatches(text)
                        \o BlockMatchesFrom(text, 1, "if", "endif")
                        \o BlockMatchesFrom(text, 1, "each", "endeach"))
  IN [i \in 1..Len(matches) |-> VarSpec(matches[i], "used in template", "string", TRUE)]

(***************************************************************************)
(* ContentValidator.validateTemplate                                       *)
(***************************************************************************)
\* The template a caller hands to validateTemplate.  Besides the lexemes of
\* the renderer its content may hold a line break and braces that belong to
\* no marker.
NewLine == <<"nl">>
Candidate(id, category, version, content, declared) ==
  [id |-> id, name |-> "n", category |-> category, version |-> version,
   content |-> content, variables |-> declared]

validCategories == {"phase", "document", "deliverable", "checklist"}
validTypes == {"string", "number", "boolean", "date", "array", "object"}
\* The version texts the schema's pattern ^\d+\.\d+\.\d+$ accepts.
VersionTexts == {"1.0.0"}

\* ajv.validate('template', template) with allErrors: one error per
\* violated keyword of the schema.
SchemaErrors(t) ==
  (IF t.id = "" THEN <<Issue(<<"id">>, "invalid", "minLength")>> ELSE <<>>)
  \o (IF t.category \notin validCategories
      THEN <<Issue(<<"category">>, "invalid", "enum")>> ELSE <<>>)
  \o (IF t.version \notin VersionTexts
      THEN <<Issue(<<"version">>, "invalid", "pattern")>> ELSE <<>>)
  \o (IF t.content = <<>> THEN <<Issue(<<"content">>, "invalid", "minLength")>> ELSE <<>>)

validateVariable(variable, i) ==
  (IF variable.name = <<>>
   THEN <<Issue(<<"variables", i, "name">>, "missing", "name")>> ELSE <<>>)
  \o (IF variable.type \notin validTypes
      THEN <<Issue(<<"variables", i, "type">>, "invalid", "type")>> ELSE <<>>)

\* content.split('\n')
RECURSIVE Split(_)
Split(content) ==
  LET i == IndexFrom(content, {"nl"}, 1)
  IN IF i = 0 THEN <<content>>
     ELSE <<SubSeq(content, 1, i - 1)>> \o Split(SubSeq(content, i + 1, Len(content)))

\* The matches of /\{\{/g and of /\}\}/g in a line: every marker holds one
\* of each.
Opening(line) == Cardinality({i \in 1..Len(line) : line[i][1] \notin {"txt", "dollar", "close"}})
Closing(line) == Cardinality({i \in 1..Len(line) : line[i][1] \notin {"txt", "dollar", "open"}})

\* Lines 334-358: the running count of open brackets, line by line.
RECURSIVE BracketErrorsFrom(_, _, _)
BracketErrorsFrom(lines, i, openBrackets) ==
  IF i > Len(lines)
  THEN (IF openBrackets > 0 THEN <<Issue(<<"content">>, "syntax", "opening brackets")>>
        ELSE <<>>)
  ELSE IF openBrackets + Opening(lines[i]) - Closing(lines[i]) < 0
       THEN <<Issue(<<"line", i>>, "syntax", "closing brackets")>>
            \o BracketErrorsFrom(lines, i + 1, 0)
       ELSE BracketErrorsFrom(lines, i + 1,
                              openBrackets + Opening(lines[i]) - Closing(lines[i]))

\* (content.match(re) || []).length for the marker prefixes and markers.
Count(content, kinds) == Cardinality({i \in 1..Len(content) : content[i][1] \in kinds})

checkTemplateSyntax(content) ==
  IF content = <<>> THEN <<>>
  ELSE BracketErrorsFrom(Split(content), 1, 0)
       \o (IF Count(content, {"if"}) # Count(content, {"endif"})
           THEN <<Issue(<<"content">>, "syntax", "conditional blocks")>> ELSE <<>>)
       \o (IF Count(content, {"each", "eachbad"}) # Count(content, {"endeach"})
           THEN <<Issue(<<"content">>, "syntax", "loop blocks")>> ELSE <<>>)

validateTemplate(t) ==
  Validated(SchemaErrors(t)
            \o (IF t.id = "" THEN <<Issue(<<"id">>, "missing", "id")>> ELSE <<>>)
            \o (IF t.content = <<>> THEN <<Issue(<<"content">>, "missing", "content")>>
                ELSE <<>>)
            \o (IF t.category \notin validCategories
                THEN <<Issue(<<"category">>, "invalid", "category")>> ELSE <<>>)
            \o Flatten([i \in 1..Len(t.variables) |-> validateVariable(t.variables[i], i)])
            \o checkTemplateSyntax(t.content),
            <<Issue(<<"description">>, "best-practice", "description"),
              Issue(<<"tags">>, "best-practice", "tags")>>)

(***************************************************************************)
(* The synchronous operations as a caller sees them: validateTemplate,     *)
(* extractVariables and validateVariables each run to their return in the  *)
(* call.                                                                   *)
(***************************************************************************)
\* The contents a caller may hand to validateTemplate.
SyntaxTexts ==
  SeqsUpTo({Txt("X"), If(<<"a">>), EndIf, Each(<<"xs">>, "x"), EndEach,
            NewLine, OpenBraces, CloseBraces}, MaxLen)
CandidateInputs ==
  {Candidate("t", "document", "1.0.0", c, <<>>) : c \in SyntaxTexts}
  \cup {Candidate(id, cat, ver, <<Txt("X")>>, d) :
          id \in {"", "t"}, cat \in {"document", "other"}, ver \in {"1.0.0", "1"},
          d \in {<<>>, <<VarSpec(<<>>, "d", "text", TRUE)>>,
                 <<VarSpec(<<"n">>, "d", "string", TRUE)>>}}

\* The texts a caller may hand to extractVariables.
ExtractTexts ==
  SeqsUpTo({Txt("X"), Var(<<"a">>), Var(<<"x">>), Var(<<"a", "k">>), If(<<"a">>),
            If(<<"b">>), EndIf, Each(<<"xs">>, "x"), Each(<<"ys">>, "y"), EndEach},
           MaxLen)
  \cup NestIf(MaxDepth) \cup NestEach(MaxDepth)

\* The variables a template may declare and the values a caller may pass
\* to validateVariables.
DeclaredPool ==
  {VarSpec(<<"n">>, "d", "string", TRUE),
   VarSpecWith(<<"n">>, "d", "number", FALSE, Validation(Absent, Num(1), Num(2), Absent)),
   VarSpecWith(<<"m">>, "d", "string", TRUE,
               Validation(Pattern({<<Txt("p")>>}), Absent, Absent,
                          Enum(<<Str(<<Txt("q")>>)>>))),
   VarSpecWith(<<"m">>, "d", "number", TRUE,
               Validation(Absent, Num(2), Num(1), Enum(<<Num(1)>>))),
   VarSpec(<<"a", "k">>, "d", "boolean", TRUE),
   VarSpec(<<"a">>, "d", "object", FALSE)}
ValidateInputs ==
  {[t |-> [Template("T", "", <<Txt("X")>>) EXCEPT !.variables = d],
    e |-> MkEnv(<<<<"n", n>>, <<"m", m>>, <<"a", a>>>>)] :
     d \in SeqsUpTo(DeclaredPool, MaxVars),
     n \in {Absent, Str(<<Txt("s")>>), Num(0), Num(3), Null},
     m \in {Absent, Str(<<Txt("p")>>), Str(<<Txt("q")>>), Num(1)},
     a \in {Absent, Obj(<<<<"k", Bool(TRUE)>>>>), Obj(<<<<"j", Num(1)>>>>)}}

CallInit ==
  /\ called = "none"
  /\ argument = <<>>
  /\ outcome = <<>>

ValidateTemplateCall(t) ==
  /\ called = "none"
  /\ called' = "validateTemplate"
  /\ argument' = t
  /\ outcome' = validateTemplate(t)
  /\ UNCHANGED besidesCall

ExtractVariablesCall(text) ==
  /\ called = "none"
  /\ called' = "extractVariables"
  /\ argument' = text
  /\ outcome' = extractVariables(text)
  /\ UNCHANGED besidesCall

ValidateVariablesCall(in) ==
  /\ called = "none"
  /\ called' = "validateVariables"
  /\ argument' = in
  /\ outcome' = validateVariables(in.t, in.e)
  /\ UNCHANGED besidesCall

\* The caller drops the result and may call again.
CallReturn ==
  /\ called # "none"
  /\ called' = "none"
  /\ argument' = <<>>
  /\ outcome' = <<>>
  /\ UNCHANGED besidesCall

ValidateTemplateNext ==
  \/ \E t \in CandidateInputs : ValidateTemplateCall(t)
  \/ CallReturn

ExtractVariablesNext ==
  \/ \E text \in ExtractTexts : ExtractVariablesCall(text)
  \/ CallReturn

ValidateVariablesNext ==
  \/ \E in \in ValidateInputs : ValidateVariablesCall(in)
  \/ CallReturn

(***************************************************************************)
(* mergeTemplates as a caller of the ITemplateInheritance interface sees   *)
(* it                                                                      *)
(***************************************************************************)

\* The entries a side may declare: two names, the description telling the
\* parent's entries from the child's and one entry of a name from another.
VarsOf(side) ==
  SeqsUpTo({VarSpec(n, d, "string", side = "p") :
              n \in {<<"n">>, <<"m">>}, d \in {side, side \o "2"}},
           MaxVars)

MergeInputs ==
  {[parent |-> [Template("P", "", pc) EXCEPT !.variables = pv],
    child |-> [Template("K", "P", cc) EXCEPT !.variables = cv]] :
     pv \in VarsOf("p"), cv \in VarsOf("c"),
     pc \in {<<Txt("b")>>, <<Txt("b"), Dollar("$"), Txt("5")>>, <<Dollar("&")>>,
             <<Dollar("'")>>},
     cc \in {<<Txt("a")>>, <<Splice, Txt("a")>>, <<Txt("a"), Splice, Txt("z"), Splice>>}}

MergeInit ==
  /\ mparent = NoTemplate
  /\ mchild = NoTemplate
  /\ mresult = NoTemplate
  /\ mpc = "idle"

\* A caller calls mergeTemplates(in.parent, in.child) and gets the result.
MergeCall(in) ==
  /\ mpc = "idle"
  /\ mparent' = in.parent
  /\ mchild' = in.child
  /\ mresult' = mergeTemplates(in.parent, in.child)
  /\ mpc' = "done"
  /\ UNCHANGED besidesMerge

\* The caller drops the result and may call again.
MergeReturn ==
  /\ mpc = "done"
  /\ mparent' = NoTemplate
  /\ mchild' = NoTemplate
  /\ mresult' = NoTemplate
  /\ mpc' = "idle"
  /\ UNCHANGED besidesMerge

MergeNext ==
  \/ \E in \in MergeInputs : MergeCall(in)
  \/ MergeReturn

(***************************************************************************)
(* Specifications                                                          *)
(***************************************************************************)
vars == <<rvars, ivars, mvars, pvars>>
Init == RenderInit /\ InheritInit /\ MergeInit /\ CallInit
Next == RenderNext
Spec == Init /\ [][Next]_vars
\* The calls whose values hold marker text.  render is synchronous code:
\* once called, a step of it that can run does run.
MarkerNext ==
  \/ \E in \in MarkerInputs : RenderCall(in)
  \/ RenderPass
  \/ RenderFinish
  \/ RenderAgain
FairSpec ==
  /\ Init /\ [][MarkerNext]_vars
  /\ WF_vars(RenderPass)
  /\ WF_vars(RenderFinish)
\* The inheritance resolver and the store.
SpecInherit == Init /\ [][InheritNext]_vars
\* mergeTemplates alone.
SpecMerge == Init /\ [][MergeNext]_vars
\* ContentManager.renderTemplate over the store and the resolver.
SpecContent == Init /\ [][ContentNext]_vars

SpecCache == Init /\ [][CacheNext]_vars

SpecValidateTemplate == Init /\ [][ValidateTemplateNext]_vars

SpecExtract == Init /\ [][ExtractVariablesNext]_vars

SpecValidateVariables == Init /\ [][ValidateVariablesNext]_vars

(***************************************************************************)
(* Claims about render                                                     *)
(***************************************************************************)
Returns == rpc = "done" /\ ~rerun

\* C1: re-rendering the text a call returned, with the same environment,
\* returns that text unchanged.
C1_RerenderIsIdentity == (rpc = "done" /\ rerun) => result = template

\* C2: every call of render ends, by returning or by a non-convergence
\* failure.
C2_RenderEnds == (rpc = "loop") ~> (rpc \in {"done", "failed"})

\* C5: a conditional block that holds a nested conditional block and whose
\* own condition is falsy leaves nothing in the output: only the text
\* around it remains, and no {{/if}}.
NestedIfTexts == UNION {NestIf(k) : k \in 2..MaxDepth}
C5_FalsyOuterBlockRemoved ==
  (Returns /\ template \in NestedIfTexts
     /\ ~isTruthy(getNestedValue(given, template[2][2])))
  => result = <<Txt("L"), Txt("R")>>

\* The depth a scan that started behind a loop header at `from` has at j:
\* 1 at the start, +1 per {{#each, -1 per {{/each}}.
DepthAt(text, from, j) ==
  1 + Cardinality({k \in from..j : text[k][1] \in {"each", "eachbad"}})
    - Cardinality({k \in from..j : text[k][1] = "endeach"})
BalancedEnd(text, from) ==
  LET S == {j \in from..Len(text) : text[j][1] = "endeach" /\ DepthAt(text, from, j) = 0}
  IN IF S = {} THEN 0 ELSE Min(S) + 1
InnerLoopOut(xs) ==
  <<Txt("L")>>
  \o Flatten([j \in 1..Len(xs) |-> <<Txt("-")>> \o ToText(xs[j]) \o <<Txt("A")>>])
  \o <<Txt("R")>>
\* C6: the end of a loop block is the {{/each}} that balances its header by
\* depth counting, in every text render works on; a loop nested in a loop
\* is rendered whole, once per element of the outer list.
C6_LoopEndBalances ==
  /\ \A i \in 1..Len(result) :
       result[i][1] = "each" => findMatchingEnd(result, i + 1) = BalancedEnd(result, i + 1)
  /\ (Returns /\ template \in NestEach(2) /\ IsArray(getNestedValue(given, <<"xs">>)))
     => LET xs == getNestedValue(given, <<"xs">>)[2]
        IN result = <<Txt("L")>> \o Flatten([i \in 1..Len(xs) |-> InnerLoopOut(xs)])
                    \o <<Txt("R")>>
C6_Witness ==
  /\ Returns /\ template \in NestEach(2)
  /\ getNestedValue(given, <<"xs">>) = Arr(<<Num(1), Str(<<Txt("s")>>)>>)
  /\ Len(result) = 2 + 2 * (2 + 2 * 3)

\* The truthiness table of the value classes.
TruthTable(v) ==
  CASE v[1] \in {"undefined", "null"} -> FALSE
    [] v[1] = "boolean" -> v[2] = TRUE
    [] v[1] = "number" -> v[2] # 0
    [] v[1] = "string" -> v[2] # <<>>
    [] v[1] = "array" -> v[2] # <<>>
    [] v[1] = "object" -> TRUE
\* C7: a conditional block keeps its body exactly when its condition is
\* truthy by the table, and is removed entirely otherwise.
C7_TruthinessTable ==
  (Returns /\ template \in NestIf(1))
  => result = IF TruthTable(getNestedValue(given, template[2][2]))
              THEN <<Txt("L"), Txt("X"), Txt("R")>>
              ELSE <<Txt("L"), Txt("R")>>
C7_Witness ==
  /\ Returns /\ template \in NestIf(1) /\ template[2][2] = <<"a">>
  /\ getNestedValue(given, <<"a">>) = Obj(<<>>)
  /\ result = <<Txt("L"), Txt("X"), Txt("R")>>

\* C8: a loop block over anything that is not a list contributes the empty
\* string, and render returns.
C8_NonListLoopIsEmpty ==
  (template \in NestEach(1) /\ ~rerun /\ getNestedValue(given, <<"xs">>)[1] # "array")
  => /\ rpc # "hung"
     /\ rpc = "done" => result = <<Txt("L"), Txt("R")>>
C8_Witness ==
  /\ Returns /\ template \in NestEach(1)
  /\ getNestedValue(given, <<"xs">>) = Str(<<Txt("s")>>)
  /\ result = <<Txt("L"), Txt("R")>>

\* The environment that binds name to v and every other name as env does.
Rebound(env, name, v) == SelectSeq(env, LAMBDA q : q[1] # name) \o <<<<name, v>>>>
\* C9: a loop block over a list of n elements is replaced by the n
\* renderings of its body, in list order, the i-th with the loop variable
\* bound to the i-th element and the other names as in the environment.
C9_LoopRendersEachElement ==
  (Returns /\ template \in NestEach(1) /\ IsArray(getNestedValue(given, <<"xs">>)))
  => LET xs == getNestedValue(given, <<"xs">>)[2]
         body == SubSeq(template, 3, Len(template) - 2)
     IN result = <<Txt("L")>>
                 \o Flatten([i \in 1..Len(xs) |-> render(body, Rebound(given, "x", xs[i])).out])
                 \o <<Txt("R")>>
C9_Witness ==
  /\ Returns /\ template \in NestEach(1)
  /\ getNestedValue(given, <<"xs">>) = Arr(<<Num(1), Str(<<Txt("s")>>)>>)
  /\ getNestedValue(given, <<"x">>) = Str(<<Txt("o")>>)
  /\ result = <<Txt("L"), Txt("-"), Txt("1"), Txt("A"), Txt("-"), Txt("s"), Txt("A"), Txt("R")>>

\* C10: the environment object the caller passed holds, during and after
\* the call, what it held when the call was made.
C10_EnvironmentUntouched == variables = given
C10_Witness ==
  /\ Returns /\ template \in NestEach(1)
  /\ getNestedValue(given, <<"xs">>) = Arr(<<Num(1), Str(<<Txt("s")>>)>>)
  /\ getNestedValue(given, <<"x">>) = Str(<<Txt("o")>>)
  /\ getNestedValue(variables, <<"x">>) = Str(<<Txt("o")>>)

\* C30: for a text whose only marker is {{a}}, every environment that binds
\* a to the same string gives the same output, whatever else it binds.
C30_OutputDependsOnReferencedValueOnly ==
  (Returns /\ [t |-> template, e |-> given] \in SoleReferenceInputs)
  => \A in \in SoleReferenceInputs :
       (in.t = template /\ OwnValue(in.e, "a") = OwnValue(given, "a"))
       => /\ render(in.t, in.e).ok
          /\ render(in.t, in.e).out = result

\* C26: the text render returns holds no variable reference marker.
C26_NoReferenceInOutput ==
  Returns => \A j \in 1..Len(Lex(result)) : Lex(result)[j][1] # "var"

\* The closing marker of an opening marker.
CloserOf(l) == IF l[1] = "if" THEN "endif" ELSE "endeach"
\* The depth at j of a scan that starts behind the opening at i: 1 at the
\* start, +1 per opening of its kind, -1 per closing of its kind.
DepthFrom(text, i, j) ==
  1 + Cardinality({k \in (i + 1)..j : text[k][1] = text[i][1]})
    - Cardinality({k \in (i + 1)..j : text[k][1] = CloserOf(text[i])})
\* The position of the closing that matches the opening at i, 0 for none.
MatchOf(text, i) ==
  LET S == {j \in (i + 1)..Len(text) :
              text[j][1] = CloserOf(text[i]) /\ DepthFrom(text, i, j) = 0}
  IN IF S = {} THEN 0 ELSE Min(S)
Openings(text) == {i \in 1..Len(text) : text[i][1] \in {"if", "each"}}
\* The openings without a matching closing that lie in no terminated block.
UnmatchedOutside(text) ==
  {i \in Openings(text) :
     /\ MatchOf(text, i) = 0
     /\ ~\E k \in Openings(text) : k < i /\ MatchOf(text, k) > i}
\* C20: render of a text with an unterminated block returns, and every
\* opening marker without a matching closing (outside the terminated
\* blocks) stands in the returned text.
C20_UnterminatedOpeningStaysLiteral ==
  (template \in OpenTexts /\ ~rerun /\ UnmatchedOutside(template) # {})
  => /\ rpc # "hung"
     /\ rpc = "done"
        => \A i \in UnmatchedOutside(template) :
             \E j \in 1..Len(result) : result[j] = template[i]

\* The text a reference to value v leaves: String(v), nothing for undefined.
TextForm(v) == IF v[1] = "undefined" THEN <<>> ELSE ToText(v)
\* C11: a plain reference outside any block is replaced by the text form of
\* the value its path resolves to, by nothing when that is undefined, and
\* render returns.
C11_ReferenceBecomesTextForm ==
  (template \in PathTexts /\ ~rerun)
  => /\ rpc # "hung"
     /\ rpc = "done"
        => result = <<Txt("L")>> \o TextForm(getNestedValue(given, template[2][2]))
                    \o <<Txt("R")>>

\* The value reached by walking the segments through nested mappings:
\* undefined when a segment is missing or the value walked into is no
\* mapping.
RECURSIVE ThroughMappings(_, _)
ThroughMappings(v, parts) ==
  IF parts = <<>> THEN v
  ELSE IF v[1] = "object" /\ HasOwn(v[2], Head(parts))
  THEN ThroughMappings(OwnValue(v[2], Head(parts)), Tail(parts))
  ELSE Undefined
\* C12: getNestedValue yields the value reached through nested mappings, and
\* undefined when a segment is missing or an intermediate value is a
\* scalar, null or a list.
C12_PathWalksMappingsOnly ==
  (template \in PathTexts /\ rpc # "idle")
  => getNestedValue(given, template[2][2]) = ThroughMappings(Obj(given), template[2][2])

(***************************************************************************)
(* Claims about inheritance resolution                                     *)
(***************************************************************************)
\* The ids met when following parent links from id in store; the walk stops
\* at a root, at a missing template, or by repeating an id it has met.
RECURSIVE ParentLinks(_, _, _)
ParentLinks(store, id, met) ==
  IF \E i \in 1..Len(met) : met[i] = id THEN Append(met, id)
  ELSE IF ~Present(store[id]) \/ store[id].parent = "" THEN Append(met, id)
  ELSE ParentLinks(store, store[id].parent, Append(met, id))

LinksOf(store, id) == ParentLinks(store, id, <<>>)

\* Following parent links from id reaches an id already visited.
Circular(store, id) ==
  \E i \in 1..(Len(LinksOf(store, id)) - 1) :
    LinksOf(store, id)[i] = LinksOf(store, id)[Len(LinksOf(store, id))]

NoRepeat(seq) == \A i, j \in 1..Len(seq) : seq[i] = seq[j] => i = j

\* A call that found the getter set and has ended, the store not having
\* changed meanwhile.
Settled(c, ops) ==
  /\ calls[c].op \in ops
  /\ calls[c].pc \in {"done", "failed"}
  /\ ~calls[c].dirty
  /\ calls[c].error \notin {"getter not set", "not a function"}

\* C3: when following parent links from id reaches an id already visited,
\* getInheritanceChain(id) and resolveTemplate(id) end with the
\* circular-inheritance error, having looked no id up in the store twice;
\* they return no chain and no template.
C3_CycleFailsWithoutRepeatedLookup ==
  \A c \in Callers :
    (Settled(c, {"resolveTemplate", "getInheritanceChain"})
       /\ Circular(templates, calls[c].templateId))
    => /\ calls[c].pc = "failed"
       /\ calls[c].error = "circular"
       /\ NoRepeat(calls[c].lookups)

\* The merge of the templates now in store along a chain given root first.
RECURSIVE MergeAlong(_, _, _)
MergeAlong(store, ids, resolved) ==
  IF ids = <<>> THEN resolved
  ELSE MergeAlong(store, Tail(ids),
                  IF Present(resolved) THEN mergeTemplates(resolved, store[Head(ids)])
                  ELSE store[Head(ids)])

RECURSIVE RootFirst(_)
RootFirst(links) ==
  IF links = <<>> THEN <<>> ELSE Append(RootFirst(Tail(links)), Head(links))

MergedNow(store, id) == MergeAlong(store, RootFirst(LinksOf(store, id)), NoTemplate)

\* id has a parent chain in store that ends at a root and misses no template.
Resolvable(store, id) ==
  /\ ~Circular(store, id)
  /\ \A i \in 1..Len(LinksOf(store, id)) : Present(store[LinksOf(store, id)[i]])
  /\ Len(LinksOf(store, id)) > 1

\* The ids above id in its parent chain.
Ancestors(store, id) == {LinksOf(store, id)[i] : i \in 2..Len(LinksOf(store, id))}

\* C4: once the change handler has replaced a template, a resolveTemplate or
\* getTemplate of a template that was not itself replaced and has the
\* replaced one in its parent chain returns the merge of the templates now
\* in the store.
C4_ResolveSeesReplacedAncestor ==
  \A c \in Callers :
    (Settled(c, {"resolveTemplate", "getTemplate"})
       /\ Resolvable(templates, calls[c].templateId)
       /\ calls[c].templateId \notin replaced
       /\ Ancestors(templates, calls[c].templateId) \cap replaced # {})
    => /\ calls[c].pc = "done"
       /\ calls[c].ret = MergedNow(templates, calls[c].templateId)

\* C15: resolveTemplate of a template with a parent returns the left fold of
\* mergeTemplates over its chain taken root first; a grandchild's splice
\* marker receives the parent's content with the grandparent's content
\* already spliced in.
C15_ResolveIsFoldRootToLeaf ==
  \A c \in Callers :
    (Settled(c, {"resolveTemplate"}) /\ Resolvable(templates, calls[c].templateId))
    => /\ calls[c].pc = "done"
       /\ calls[c].ret = MergedNow(templates, calls[c].templateId)

\* C16: resolveTemplate of a stored template without a parent returns it
\* with every field as stored, and builds no chain.
C16_ParentlessReturnedAsStored ==
  \A c \in Callers :
    (Settled(c, {"resolveTemplate"})
       /\ Present(templates[calls[c].templateId])
       /\ templates[calls[c].templateId].parent = "")
    => /\ calls[c].pc = "done"
       /\ calls[c].ret = templates[calls[c].templateId]
       /\ calls[c].chain = <<>>

\* C17: a chain getInheritanceChain returns starts with id and repeats no
\* id; each following element is the parent recorded in the stored template
\* of the element before it (the store as it was during the call).
C17_ChainFollowsParents ==
  \A c \in Callers :
    (calls[c].op = "getInheritanceChain" /\ calls[c].pc = "done")
    => /\ calls[c].retChain # <<>>
       /\ calls[c].retChain[1] = calls[c].templateId
       /\ NoRepeat(calls[c].retChain)
       /\ ~calls[c].dirty
          => \A i \in 1..(Len(calls[c].retChain) - 1) :
               /\ Present(templates[calls[c].retChain[i]])
               /\ templates[calls[c].retChain[i]].parent = calls[c].retChain[i + 1]
C17_Witness ==
  \E c \in Callers :
    /\ calls[c].op = "getInheritanceChain" /\ calls[c].pc = "done" /\ ~calls[c].dirty
    /\ calls[c].retChain = <<"A", "B", "C">>

\* The id at which following parent links from id leaves the store, when it
\* does: the last id met.
Missing(store, id) == LinksOf(store, id)[Len(LinksOf(store, id))]
\* C18: when id or an ancestor reached from id is absent from the store,
\* a resolveTemplate that asks the store fails with a missing-template error
\* and returns no template, having asked for the absent id once.
C18_MissingFailsAtFirstLookup ==
  \A c \in Callers :
    (Settled(c, {"resolveTemplate"})
       /\ calls[c].lookups # <<>>
       /\ ~Circular(templates, calls[c].templateId)
       /\ ~Present(templates[Missing(templates, calls[c].templateId)]))
    => /\ calls[c].pc = "failed"
       /\ calls[c].error \in {"not found", "chain not found"}
       /\ ~Present(calls[c].ret)
       /\ Cardinality({i \in 1..Len(calls[c].lookups) :
                         calls[c].lookups[i] = Missing(templates, calls[c].templateId)}) <= 1

\* Every id met from id is in the store and the walk ends at a root.
Complete(store, id) ==
  /\ ~Circular(store, id)
  /\ \A i \in 1..Len(LinksOf(store, id)) : Present(store[LinksOf(store, id)[i]])

\* What C19 asks of a call that ended, given the resolved template t.
ValidatedThenRendered(call, t) ==
  IF validateVariables(t, call.env).valid
  THEN call.pc = "rendered" /\ call.out = render(t.content, call.env).out
  ELSE call.pc = "failed" /\ call.error = "invalid variables" /\ call.out = <<>>

\* C19: renderTemplate checks the variables against the declared variables
\* of the resolved template, those of its ancestors included, before it
\* substitutes; with an error it fails and returns no text, without one it
\* returns the rendering of the resolved content.
C19_ValidatedBeforeRender ==
  \A c \in Callers :
    (calls[c].op = "renderTemplate"
       /\ calls[c].pc \in {"rendered", "failed", "hung"}
       /\ ~calls[c].dirty
       /\ Complete(templates, calls[c].templateId))
    => ValidatedThenRendered(calls[c], MergedNow(templates, calls[c].templateId))

\* C27: a chain getInheritanceChain returns ends in a root, an id whose
\* template is in the store and has no parent; with id or an ancestor absent
\* from the store the call fails (the store unchanged during the call).
C27_ChainEndsInRoot ==
  \A c \in Callers :
    Settled(c, {"getInheritanceChain"})
    => /\ calls[c].pc = "done"
          => /\ calls[c].retChain # <<>>
             /\ Present(templates[calls[c].retChain[Len(calls[c].retChain)]])
             /\ templates[calls[c].retChain[Len(calls[c].retChain)]].parent = ""
       /\ (~Circular(templates, calls[c].templateId)
             /\ ~Present(templates[Missing(templates, calls[c].templateId)]))
          => calls[c].pc = "failed"

\* C28: a resolveTemplate(id) that finds an entry for id returns it without
\* asking the store; an entry stays as it is until clearCache; the first
\* resolveTemplate(id) after a clearCache asks the store.
C28_CachedUntilCleared ==
  [][/\ \A c \in Callers :
          (calls[c].pc = "idle" /\ calls'[c].op = "resolveTemplate")
          => /\ Present(resolvedCache[calls'[c].templateId])
                => /\ calls'[c].pc = "done"
                   /\ calls'[c].ret = resolvedCache[calls'[c].templateId]
                   /\ calls'[c].lookups = <<>>
             /\ (calls'[c].templateId \in afterClear /\ templateGetter)
                => calls'[c].lookups # <<>>
     /\ \A id \in Ids :
          (Present(resolvedCache[id]) /\ resolvedCache' # [i \in Ids |-> NoTemplate])
          => resolvedCache'[id] = resolvedCache[id]]_vars

\* C29: a resolveTemplate call that fails leaves the cache as it was: no step
\* of a call changes the cache but the one that ends it with a result.
C29_FailedResolveLeavesCache ==
  [][\A c \in Callers :
       (calls'[c].op = "resolveTemplate" /\ calls'[c] # calls[c] /\ calls'[c].pc # "done")
       => resolvedCache' = resolvedCache]_vars

\* A resolveTemplate has failed on a missing ancestor, after lookups, with
\* entries in the cache.
C29_Witness ==
  \E c \in Callers :
    /\ calls[c].op = "resolveTemplate"
    /\ calls[c].pc = "failed"
    /\ calls[c].error = "chain not found"
    /\ \E id \in Ids : Present(resolvedCache[id])

\* C24: a resolveTemplate in flight when the cache is cleared leaves no entry
\* in the cache, after the clear, that holds a template it read before it.
C24_ClearIsExclusive ==
  [][\A c \in Callers :
       (calls[c].cleared /\ calls'[c] # calls[c])
       => resolvedCache'[calls[c].templateId]
            \in {resolvedCache[calls[c].templateId], NoTemplate}]_vars

(***************************************************************************)
(* Claims about mergeTemplates                                             *)
(***************************************************************************)
NamesOf(entries) == {entries[i].name : i \in 1..Len(entries)}
ChildOnly(pv, cv) == SelectSeq(cv, LAMBDA v : v.name \notin NamesOf(pv))
\* C13: the merged variables are the parent's in the parent's order, each
\* entry whose name the child declares replaced in place by a child's entry
\* of that name, followed by the child's entries of names the parent does
\* not declare, in the child's order.
C13_VariablesParentOrderChildOverrides ==
  (mpc = "done")
  => /\ Len(mresult.variables)
          = Len(mparent.variables) + Len(ChildOnly(mparent.variables, mchild.variables))
     /\ \A i \in 1..Len(mparent.variables) :
          IF mparent.variables[i].name \in NamesOf(mchild.variables)
          THEN \E j \in 1..Len(mchild.variables) :
                 /\ mchild.variables[j].name = mparent.variables[i].name
                 /\ mresult.variables[i] = mchild.variables[j]
          ELSE mresult.variables[i] = mparent.variables[i]
     /\ SubSeq(mresult.variables, Len(mparent.variables) + 1, Len(mresult.variables))
          = ChildOnly(mparent.variables, mchild.variables)

\* C14: the merged content is the child's content with every splice marker
\* replaced by the parent's content as it is; without a marker it is the
\* child's content.
C14_SpliceCopiesParentVerbatim ==
  (mpc = "done")
  => mresult.content
       = Flatten([i \in 1..Len(mchild.content) |->
                    IF mchild.content[i][1] = "splice" THEN mparent.content
                    ELSE <<mchild.content[i]>>])

(***************************************************************************)
(* Claims about validateTemplate and extractVariables                      *)
(***************************************************************************)
\* An opening marker of a block with no closing marker of the block behind it.
NoClosingBehind(content) ==
  \E i \in Openings(content) : IndexFrom(content, {CloserOf(content[i])}, i + 1) = 0

\* C21: validateTemplate reports a syntax error, and valid = false, for
\* every content with an opening marker that has no closing marker behind
\* it, also when the openings and closings are equal in number.
C21_UnterminatedBlockIsSyntaxError ==
  (called = "validateTemplate" /\ NoClosingBehind(argument.content))
  => /\ ~outcome.valid
     /\ \E k \in 1..Len(outcome.errors) : outcome.errors[k].type = "syntax"

\* A text whose blocks are all terminated: every opening has its matching
\* closing and there is no closing besides.
WellFormed(text) ==
  /\ \A i \in Openings(text) : MatchOf(text, i) # 0
  /\ Count(text, {"if"}) = Count(text, {"endif"})
  /\ Count(text, {"each"}) = Count(text, {"endeach"})
\* The dotted paths a text uses: references, conditions and loop sources.
PathsUsed(text) ==
  {text[i][2] : i \in {j \in 1..Len(text) : text[j][1] \in {"var", "if", "each"}}}
NamesListed(vs) == {vs[k].name : k \in 1..Len(vs)}

\* C22: extractVariables lists every distinct path a text uses as a
\* reference, a condition or a loop source, at any nesting depth, once.
C22_EveryPathListedOnce ==
  (called = "extractVariables" /\ WellFormed(argument))
  => /\ NamesListed(outcome) = PathsUsed(argument)
     /\ Cardinality(NamesListed(outcome)) = Len(outcome)

\* The loops of a text whose item name occurs only as the item of the loop:
\* as a path it stands nowhere but in references inside the loop's body.
ItemOnlyLoops(text) ==
  {i \in Openings(text) :
     /\ text[i][1] = "each"
     /\ MatchOf(text, i) # 0
     /\ \A j \in 1..Len(text) :
          (text[j][1] \in {"var", "if", "each"} /\ text[j][2] = <<text[i][3]>>)
          => (text[j][1] = "var" /\ i < j /\ j < MatchOf(text, i))
     /\ \E j \in (i + 1)..(MatchOf(text, i) - 1) : text[j] = Var(<<text[i][3]>>)}

\* C23: extractVariables lists the source of a loop and never the item name
\* the loop binds.
C23_LoopItemNotListed ==
  called = "extractVariables"
  => \A i \in ItemOnlyLoops(argument) :
       /\ argument[i][2] \in NamesListed(outcome)
       /\ <<argument[i][3]>> \notin NamesListed(outcome)

(***************************************************************************)
(* Claims about validateVariables                                          *)
(***************************************************************************)
\* The value classes a declared type admits.
ClassesOf(type) ==
  CASE type = "string" -> {"string"}
    [] type = "number" -> {"number"}
    [] type = "boolean" -> {"boolean"}
    [] type = "date" -> {"string"}
    [] type = "array" -> {"array"}
    [] type = "object" -> {"object"}

\* The rules a provided value breaks, "required" for a missing required one.
RulesBroken(varDef, value) ==
  IF value = Undefined THEN (IF varDef.required THEN {"required"} ELSE {})
  ELSE (IF value[1] \notin ClassesOf(varDef.type) THEN {"type"} ELSE {})
       \cup {r \in {"pattern", "min", "max", "enum"} :
               \/ r = "pattern" /\ RulesOf(varDef).pattern # Absent
                  /\ value[1] = "string" /\ value[2] \notin RulesOf(varDef).pattern[2]
               \/ r = "min" /\ RulesOf(varDef).min # Absent
                  /\ value[1] = "number" /\ value[2] < RulesOf(varDef).min[2]
               \/ r = "max" /\ RulesOf(varDef).max # Absent
                  /\ value[1] = "number" /\ value[2] > RulesOf(varDef).max[2]
               \/ r = "enum" /\ RulesOf(varDef).enum # Absent
                  /\ \A k \in 1..Len(RulesOf(varDef).enum[2]) :
                       RulesOf(varDef).enum[2][k] # value}
\* Every violation of a call: the declared variable and the rule it breaks.
Violations(in) ==
  {v \in (1..Len(in.t.variables))
         \X {"required", "type", "pattern", "min", "max", "enum"} :
     v[2] \in RulesBroken(in.t.variables[v[1]],
                          getNestedValue(in.e, in.t.variables[v[1]].name))}

\* C25: validateVariables collects every violation: one 'missing' error per
\* declared required variable that resolves to undefined, one 'invalid'
\* error per type and rule violation of a provided variable, nothing else;
\* valid says that there is no error, whatever the warnings.
C25_ViolationsCollected ==
  called = "validateVariables"
  => /\ \A v \in Violations(argument) :
          \E k \in 1..Len(outcome.errors) :
            outcome.errors[k] =
              Issue(argument.t.variables[v[1]].name,
                    IF v[2] = "required" THEN "missing" ELSE "invalid", v[2])
     /\ Len(outcome.errors) = Cardinality(Violations(argument))
     /\ outcome.valid <=> Violations(argument) = {}

\* Two declared variables are in violation, and there is a warning.
C25_Witness ==
  /\ called = "validateVariables"
  /\ \E v, w \in Violations(argument) : v[1] # w[1] /\ v[2] = "required" /\ w[2] # "required"
  /\ Len(outcome.warnings) > 0
  /\ ~outcome.valid
====
